---- MODULE Spec2Model ----
(***************************************************************************)
(* httm: snapshot resolution (src/src/lookup.rs) and deleted-file          *)
(* reconstruction (src/src/deleted.rs).                                    *)
(*                                                                         *)
(* A path is the sequence of its components below the filesystem root, so  *)
(* the root "/" is the empty sequence.  A component, a filesystem name and *)
(* a file name are sequences of one-character strings, so that byte        *)
(* lengths, byte prefixes and string suffixes are computed, not assumed.   *)
(***************************************************************************)
EXTENDS Integers, Sequences, FiniteSets, TLC

VARIABLES
    disk,             \* the snapshot filesystem: hidden snapshot dir -> its listing
    search_dirs,      \* get_versions: the SearchDirs argument
    gv_pc,            \* get_versions: position
    pending,          \* get_versions: snapshot entries the parallel bridge has not yet taken
    unique_versions,  \* get_versions: HashMap<(SystemTime, u64), PathData>
    gv_result,        \* get_versions: the returned Result
    config,           \* Config: opt_alt_replicated, opt_no_live_vers, snap_point
    path_data,        \* lookup_exec: the input Vec<PathData>
    lk_pc,            \* lookup_exec: position
    task,             \* lookup_exec: index of the (path, dataset type) pair being mapped
    plans,            \* lookup_exec: SearchDirs of the current pair not yet given to get_versions
    immediate,        \* get_search_dirs: the last result of get_immediate_dataset
    planned,          \* lookup_exec: the last result of get_search_dirs
    datasets,         \* get_search_dirs: the last dataset_collection
    reverse_index,    \* get_alt_replicated_dataset: the last unique_mounts map
    all_snaps,        \* lookup_exec: the collected Vec<PathData>
    dropped,          \* lookup_exec: the Err values the flatten() calls discarded
    live_versions,    \* lookup_exec: the live copies
    lk_result,        \* lookup_exec: the returned Result
    live_dir,         \* the listing of the requested directory
    snap_dirs,        \* hidden snapshot dir -> snapshot -> listing of snapshot + relative path
    requested_dir,    \* get_unique_deleted / get_deleted_per_dataset: the requested directory
    dd_search_dirs,   \* get_deleted_per_dataset: the SearchDirs argument
    dd_pc,            \* get_deleted_per_dataset: position
    dd_pending,       \* get_deleted_per_dataset: snapshot entries not yet taken
    unique_snap_filenames, \* get_deleted_per_dataset: HashMap<OsString, PathAndMaybeFileType>
    dd_result,        \* get_deleted_per_dataset: the returned Result
    ud_pc,            \* get_unique_deleted: position
    ud_task,          \* get_unique_deleted: index of the dataset type being mapped
    ud_plans,         \* get_unique_deleted: SearchDirs not yet given to get_deleted_per_dataset
    prep_deleted,     \* get_unique_deleted: Vec<(SystemTime, PathAndMaybeFileType)>
    ud_result,        \* get_unique_deleted: the returned Result
    process,          \* the httm process: running, or exited by std::process::exit
    bv_pc,            \* browse_view: position
    hangup_tx,        \* browse_view: the sending side of the hangup channel
    selected_items,   \* browse_view: the number of items the picker returned as selected
    bv_result,        \* browse_view: the returned HttmResult
    rx_item,          \* the number of items in the unbounded item channel
    shown,            \* Skim::run_with: the number of items the picker has read
    walker_pc,        \* recursive_exec thread: position
    dirs_left,        \* recursive_exec thread: directories still to enumerate
    ir_pc,            \* interactive_restore: position
    opt_overwrite,    \* interactive_restore: config.opt_overwrite
    snap_metadata,    \* interactive_restore: whether the snapshot file has metadata
    original_found,   \* interactive_restore: whether the lookup finds the original live path
    dest_exists,      \* interactive_restore: whether the computed destination exists on disk
    user_consent,     \* interactive_restore: the last answer, in upper case
    prompts,          \* interactive_restore: calls of select_restore_view so far
    copies,           \* interactive_restore: calls of copy_recursive so far
    ir_result         \* interactive_restore: the returned HttmResult

gvvars == <<search_dirs, gv_pc, pending, unique_versions, gv_result>>

lkvars == <<config, path_data, lk_pc, task, plans, immediate, planned, datasets, reverse_index,
            all_snaps, dropped, live_versions, lk_result>>

envvars == <<live_dir, snap_dirs, requested_dir>>

ddvars == <<dd_search_dirs, dd_pc, dd_pending, unique_snap_filenames, dd_result>>

udvars == <<ud_pc, ud_task, ud_plans, prep_deleted, ud_result>>

delvars == <<envvars, ddvars, udvars>>

bvvars == <<process, bv_pc, hangup_tx, selected_items, bv_result, rx_item, shown, walker_pc,
            dirs_left>>

irvars == <<ir_pc, opt_overwrite, snap_metadata, original_found, dest_exists, user_consent,
            prompts, copies, ir_result>>

vars == <<disk, gvvars, lkvars, delvars, bvvars, irvars>>

(***************************************************************************)
(* Bounds.                                                                 *)
(***************************************************************************)
MaxSnaps == 3
MaxTime == 2
MaxSize == 2
MaxDepth == 2
MaxMounts == 3
MaxPaths == 2
MaxDirs == 2
MaxItems == 2
MaxPrompts == 3

(***************************************************************************)
(* Paths.                                                                  *)
(***************************************************************************)
Root == <<>>

ZfsSnapshot == << <<".", "z", "f", "s">>, <<"s", "n", "a", "p", "s", "h", "o", "t">> >>

Digit == <<"1", "2", "3", "4", "5", "6", "7", "8", "9">>

SnapName(i) == <<"s", Digit[i]>>

SnapNames == {SnapName(i) : i \in 1..MaxSnaps}

Join(p, q) == p \o q

Comps == {<<"u">>, <<"u", "b">>}

PathsUpTo(d) == UNION {[1..n -> Comps] : n \in 0..d}

RECURSIVE Bytes(_)
Bytes(p) ==
    IF p = <<>> THEN <<"/">>
    ELSE IF Len(p) = 1 THEN <<"/">> \o p[1]
    ELSE <<"/">> \o p[1] \o Bytes(Tail(p))

os_len(p) == Len(Bytes(p))

parent_or_root(p) == IF p = Root THEN Root ELSE SubSeq(p, 1, Len(p) - 1)

bytes_start_with(p, base) ==
    /\ Len(Bytes(base)) <= Len(Bytes(p))
    /\ SubSeq(Bytes(p), 1, Len(Bytes(base))) = Bytes(base)

RECURSIVE starts_with(_, _)
starts_with(p, base) ==
    IF base = <<>> THEN TRUE
    ELSE IF p = <<>> THEN FALSE
    ELSE Head(p) = Head(base) /\ starts_with(Tail(p), Tail(base))

begins_with(s, prefix) ==
    Len(prefix) <= Len(s) /\ SubSeq(s, 1, Len(prefix)) = prefix

ends_with(s, suffix) ==
    /\ Len(suffix) <= Len(s)
    /\ SubSeq(s, Len(s) - Len(suffix) + 1, Len(s)) = suffix

Times == 1..MaxTime

Sizes == 1..MaxSize

(***************************************************************************)
(* Results.                                                                *)
(***************************************************************************)
Ok(v) == [ok |-> TRUE, val |-> v, err |-> ""]

Err(msg) == [ok |-> FALSE, val |-> <<>>, err |-> msg]

IoError == "io error"

Orders(S) ==
    {s \in [1..Cardinality(S) -> S] : \A i, j \in 1..Cardinality(S) : i # j => s[i] # s[j]}

(***************************************************************************)
(* Config and the mount inventory.                                         *)
(***************************************************************************)
MountPoints == {Root, << <<"u">> >>, << <<"u", "b">> >>}

FsNames == {<<"r">>, <<"x", "r">>, <<"r", "x">>}

MountEntries == [filesystem : FsNames, mount : MountPoints]

Inventories(E, n) == UNION {[1..k -> E] : k \in 0..n}

Native(mount_collection) ==
    [kind |-> "Native", mounts |-> mount_collection, snap_dir |-> Root, local_dir |-> Root]

UserDefined(snap, local) ==
    [kind |-> "UserDefined", mounts |-> <<>>, snap_dir |-> snap, local_dir |-> local]

MsgNoQualifyingDataset == "Could not identify any qualifying dataset."

MsgNoAltReplicated == "httm was unable to detect an alternate replicated mount point."

MsgLocalDir == "Perhaps you need to set the LOCAL_DIR value."

MsgSnapDirLocalDir == "Perhaps you need to set the SNAP_DIR and LOCAL_DIR values."

MsgNothingEverExisted == "Neither a live copy, nor a snapshot copy of such a file appears to exist"

(***************************************************************************)
(* get_immediate_dataset                                                   *)
(***************************************************************************)
path_itself(p) == p

parent_folder(p) == parent_or_root(p)

potential_mountpoints(parent, mount_collection) ==
    {i \in 1..Len(mount_collection) : starts_with(parent, mount_collection[i].mount)}

min_by_len(mount_collection, potential) ==
    mount_collection[CHOOSE i \in potential :
        \A j \in potential : os_len(mount_collection[i].mount) <= os_len(mount_collection[j].mount)].mount

max_by_len(mount_collection, potential) ==
    mount_collection[CHOOSE i \in potential :
        \A j \in potential : os_len(mount_collection[j].mount) <= os_len(mount_collection[i].mount)].mount

get_immediate_dataset(pathdata, mount_collection) ==
    LET potential == potential_mountpoints(parent_folder(pathdata.path_buf), mount_collection) IN
    IF potential = {}
    THEN Err(MsgNoQualifyingDataset)
    ELSE Ok(max_by_len(mount_collection, potential))

(***************************************************************************)
(* get_alt_replicated_dataset: every result the unordered map and the      *)
(* unstable sort can produce.                                              *)
(***************************************************************************)
first_mounts(mount_collection) ==
    LET keys == {mount_collection[i].mount : i \in 1..Len(mount_collection)}
        first(m) == CHOOSE i \in 1..Len(mount_collection) :
                       /\ mount_collection[i].mount = m
                       /\ \A j \in 1..Len(mount_collection) :
                            mount_collection[j].mount = m => i <= j
    IN [m \in keys |-> mount_collection[first(m)].filesystem]

unique_mounts(mount_collection) ==
    LET keys == {mount_collection[i].mount : i \in 1..Len(mount_collection)}
        last(m) == CHOOSE i \in 1..Len(mount_collection) :
                      /\ mount_collection[i].mount = m
                      /\ \A j \in 1..Len(mount_collection) :
                           mount_collection[j].mount = m => j <= i
    IN [m \in keys |-> mount_collection[last(m)].filesystem]

sort_by_len_descending(S) ==
    {s \in Orders(S) : \A i, j \in 1..Cardinality(S) : i < j => os_len(s[i]) >= os_len(s[j])}

sort_by_len(S) ==
    {s \in Orders(S) : \A i, j \in 1..Cardinality(S) : i < j => os_len(s[i]) <= os_len(s[j])}

get_alt_replicated_dataset(immediate_dataset_mount, mount_collection) ==
    LET um == unique_mounts(mount_collection) IN
    IF immediate_dataset_mount \in DOMAIN um
    THEN LET fs0 == um[immediate_dataset_mount]
             alt == {m \in DOMAIN um : um[m] # fs0 /\ ends_with(um[m], fs0)}
         IN IF alt = {}
            THEN {Err(MsgNoAltReplicated)}
            ELSE {Ok([i \in 1..Len(s) |-> <<s[i], immediate_dataset_mount>>]) : s \in sort_by_len(alt)}
    ELSE {Err(MsgNoAltReplicated)}

(***************************************************************************)
(* get_search_dirs: every result it can produce.                           *)
(***************************************************************************)
strip_prefix(p, base) ==
    IF starts_with(p, base) THEN Ok(SubSeq(p, Len(base) + 1, Len(p))) ELSE Err("StripPrefixError")

dataset_collection(cfg, file_pathdata, requested_dataset_type) ==
    IF cfg.snap_point.kind = "UserDefined"
    THEN {Ok(<< <<cfg.snap_point.snap_dir, cfg.snap_point.snap_dir>> >>)}
    ELSE LET imm == get_immediate_dataset(file_pathdata, cfg.snap_point.mounts) IN
         IF ~imm.ok THEN {imm}
         ELSE IF requested_dataset_type = "MostImmediate"
              THEN {Ok(<< <<imm.val, imm.val>> >>)}
              ELSE get_alt_replicated_dataset(imm.val, cfg.snap_point.mounts)

relative_path(cfg, file_pathdata, immediate_dataset_snap_mount) ==
    IF cfg.snap_point.kind = "UserDefined"
    THEN LET r == strip_prefix(file_pathdata.path_buf, cfg.snap_point.local_dir) IN
         IF r.ok THEN r ELSE Err(MsgLocalDir)
    ELSE LET r == strip_prefix(file_pathdata.path_buf, immediate_dataset_snap_mount) IN
         IF r.ok THEN r ELSE Err(MsgSnapDirLocalDir)

search_dirs_of_interest(cfg, file_pathdata, pairs) ==
    LET rel(i) == relative_path(cfg, file_pathdata, pairs[i][1])
        failed == {i \in 1..Len(pairs) : ~rel(i).ok}
    IN IF failed # {}
       THEN Err(rel(CHOOSE i \in failed : TRUE).err)
       ELSE Ok([i \in 1..Len(pairs) |->
                  [hidden_snapshot_dir |-> Join(pairs[i][1], ZfsSnapshot),
                   relative_path |-> rel(i).val]])

search_dirs_of(cfg, file_pathdata, pairs) ==
    LET rel(i) == relative_path(cfg, file_pathdata, pairs[i][2])
        failed == {i \in 1..Len(pairs) : ~rel(i).ok}
    IN IF failed # {}
       THEN Err(rel(CHOOSE i \in failed : TRUE).err)
       ELSE Ok([i \in 1..Len(pairs) |->
                  [hidden_snapshot_dir |-> Join(pairs[i][1], ZfsSnapshot),
                   relative_path |-> rel(i).val]])

get_search_dirs(cfg, file_pathdata, requested_dataset_type) ==
    {IF dc.ok THEN search_dirs_of(cfg, file_pathdata, dc.val) ELSE dc :
        dc \in dataset_collection(cfg, file_pathdata, requested_dataset_type)}

(***************************************************************************)
(* The snapshot filesystem.  A hidden snapshot directory is unreadable or  *)
(* lists snapshot entries; what is found at entry + relative path is       *)
(* absent (NoFile) or a file with a modify time and a size.  Directory     *)
(* entries that read_dir yields as Err are dropped by flatten() before     *)
(* anything looks at them, so a listing holds the Ok entries only.         *)
(***************************************************************************)
NoFile == [present |-> FALSE, mtime |-> 0, len |-> 0]

File(t, z) == [present |-> TRUE, mtime |-> t, len |-> z]

Metas == {NoFile} \cup {File(t, z) : t \in Times, z \in Sizes}

Unreadable == [readable |-> FALSE, entries |-> <<>>]

Listing(f) == [readable |-> TRUE, entries |-> f]

Listings == UNION {{Listing(f) : f \in [D -> Metas]} : D \in SUBSET SnapNames}

PathDataFrom(path, md) ==
    IF md.present
    THEN [path_buf |-> path, system_time |-> md.mtime, size |-> md.len, is_phantom |-> FALSE]
    ELSE [path_buf |-> path, system_time |-> 0, size |-> 0, is_phantom |-> TRUE]

(***************************************************************************)
(* get_versions                                                            *)
(***************************************************************************)
candidate(sd, dk, entry) ==
    PathDataFrom(Join(Join(sd.hidden_snapshot_dir, <<entry>>), sd.relative_path),
                 dk[sd.hidden_snapshot_dir].entries[entry])

keep_all(pathdata) == TRUE

keep_version(pathdata) == ~pathdata.is_phantom

key_by_path(pathdata) == pathdata.path_buf

version_key(pathdata) == <<pathdata.system_time, pathdata.size>>

Insert(map, k, v) == [x \in DOMAIN map \cup {k} |-> IF x = k THEN v ELSE map[x]]

Values(map) == {map[k] : k \in DOMAIN map}

unsorted(S) == Orders(S)

sort_by_system_time(S) ==
    {s \in Orders(S) : \A i, j \in 1..Cardinality(S) : i < j => s[i].system_time <= s[j].system_time}

EmptyMap == [x \in {} |-> 0]

ReadSnapshotRoot ==
    /\ gv_pc = "call"
    /\ IF disk[search_dirs.hidden_snapshot_dir].readable
       THEN /\ gv_pc' = "bridge"
            /\ pending' = DOMAIN disk[search_dirs.hidden_snapshot_dir].entries
            /\ UNCHANGED gv_result
       ELSE /\ gv_pc' = "returned"
            /\ gv_result' = Err(IoError)
            /\ UNCHANGED pending
    /\ unique_versions' = EmptyMap
    /\ UNCHANGED <<disk, bvvars, irvars, search_dirs, lkvars, delvars>>

VisitEntry ==
    /\ gv_pc = "bridge"
    /\ \E entry \in pending :
         LET pathdata == candidate(search_dirs, disk, entry) IN
         /\ pending' = pending \ {entry}
         /\ unique_versions' =
              IF keep_version(pathdata)
              THEN Insert(unique_versions, version_key(pathdata), pathdata)
              ELSE unique_versions
    /\ UNCHANGED <<disk, bvvars, irvars, search_dirs, gv_pc, gv_result, lkvars, delvars>>

SortVersions ==
    /\ gv_pc = "bridge"
    /\ pending = {}
    /\ \E sorted \in sort_by_system_time(Values(unique_versions)) :
         gv_result' = Ok(sorted)
    /\ gv_pc' = "returned"
    /\ UNCHANGED <<disk, bvvars, irvars, search_dirs, pending, unique_versions, lkvars, delvars>>

(***************************************************************************)
(* lookup_exec.  The collect() keeps the order of the (path, dataset type) *)
(* pairs, so the pairs are taken in that order.                            *)
(***************************************************************************)
selected_datasets(cfg) ==
    IF cfg.opt_alt_replicated THEN <<"AltReplicated", "MostImmediate">> ELSE <<"MostImmediate">>

NTasks == Len(path_data) * Len(selected_datasets(config))

task_path(t) == path_data[((t - 1) \div Len(selected_datasets(config))) + 1]

task_dataset_type(t) == selected_datasets(config)[((t - 1) % Len(selected_datasets(config))) + 1]

after_task(t) == IF t + 1 > NTasks THEN "assemble" ELSE "fanout"

always_live_versions(cfg, pd) == pd

select_live_versions(cfg, pd) == IF ~cfg.opt_no_live_vers THEN pd ELSE <<>>

any_phantom(live) == \E i \in 1..Len(live) : live[i].is_phantom

all_phantom(live) == \A i \in 1..Len(live) : live[i].is_phantom

calls_alt_replicated(cfg, file_pathdata, requested_dataset_type) ==
    /\ cfg.snap_point.kind = "Native"
    /\ requested_dataset_type = "AltReplicated"
    /\ get_immediate_dataset(file_pathdata, cfg.snap_point.mounts).ok

PlanTask ==
    /\ lk_pc = "fanout"
    /\ task <= NTasks
    /\ \E dc \in dataset_collection(config, task_path(task), task_dataset_type(task)) :
       LET outcome == IF dc.ok THEN search_dirs_of(config, task_path(task), dc.val) ELSE dc IN
         /\ datasets' = dc
         /\ planned' = outcome
         /\ IF outcome.ok
            THEN /\ plans' = outcome.val
                 /\ search_dirs' = Head(outcome.val)
                 /\ gv_pc' = "call"
                 /\ lk_pc' = "versions"
                 /\ UNCHANGED <<task, dropped>>
            ELSE /\ dropped' = dropped \cup {outcome.err}
                 /\ task' = task + 1
                 /\ lk_pc' = after_task(task)
                 /\ UNCHANGED <<plans, search_dirs, gv_pc>>
    /\ immediate' = IF config.snap_point.kind = "Native"
                    THEN get_immediate_dataset(task_path(task), config.snap_point.mounts)
                    ELSE immediate
    /\ reverse_index' = IF calls_alt_replicated(config, task_path(task), task_dataset_type(task))
                        THEN unique_mounts(config.snap_point.mounts)
                        ELSE reverse_index
    /\ UNCHANGED <<disk, bvvars, irvars, pending, unique_versions, gv_result, config, path_data, all_snaps,
                   live_versions, lk_result, delvars>>

CollectVersions ==
    /\ lk_pc = "versions"
    /\ gv_pc = "returned"
    /\ all_snaps' = IF gv_result.ok THEN all_snaps \o gv_result.val ELSE all_snaps
    /\ dropped' = IF gv_result.ok THEN dropped ELSE dropped \cup {gv_result.err}
    /\ plans' = Tail(plans)
    /\ IF Tail(plans) # <<>>
       THEN /\ search_dirs' = Head(Tail(plans))
            /\ gv_pc' = "call"
            /\ UNCHANGED <<task, lk_pc>>
       ELSE /\ gv_pc' = "idle"
            /\ task' = task + 1
            /\ lk_pc' = after_task(task)
            /\ UNCHANGED search_dirs
    /\ UNCHANGED <<disk, bvvars, irvars, pending, unique_versions, gv_result, config, path_data, immediate,
                   planned, datasets, reverse_index, live_versions, lk_result, delvars>>

AssemblePropagating ==
    /\ lk_pc = "assemble"
    /\ LET live == select_live_versions(config, path_data) IN
       /\ live_versions' = live
       /\ lk_result' = IF dropped # {}
                       THEN Err(CHOOSE e \in dropped : TRUE)
                       ELSE IF all_snaps = <<>> /\ all_phantom(live)
                            THEN Err(MsgNothingEverExisted)
                            ELSE Ok(<<all_snaps, live>>)
    /\ lk_pc' = "done"
    /\ UNCHANGED <<disk, bvvars, irvars, gvvars, config, path_data, task, plans, immediate, planned, datasets,
                   reverse_index, all_snaps, dropped, delvars>>

Assemble ==
    /\ lk_pc = "assemble"
    /\ LET live == select_live_versions(config, path_data) IN
       /\ live_versions' = live
       /\ lk_result' = IF all_snaps = <<>> /\ all_phantom(live)
                       THEN Err(MsgNothingEverExisted)
                       ELSE Ok(<<all_snaps, live>>)
    /\ lk_pc' = "done"
    /\ UNCHANGED <<disk, bvvars, irvars, gvvars, config, path_data, task, plans, immediate, planned, datasets,
                   reverse_index, all_snaps, dropped, delvars>>

(***************************************************************************)
(* get_deleted_per_dataset                                                 *)
(***************************************************************************)
FileNames == {<<"a">>, <<"b">>}

NoStat == 0

file_name(path) == path[Len(path)]

has_file_name(path) == Len(path) > 0

dir_entry(dir, name) == [path |-> Join(dir, <<name>>), file_type |-> "file"]

is_local(local_filenames, name) == name \in local_filenames

is_deleted(local_filenames, name) == name \notin local_filenames

snapshot_dir(sd, entry) == Join(Join(sd.hidden_snapshot_dir, <<entry>>), sd.relative_path)

DdReadDirs ==
    /\ dd_pc = "call"
    /\ IF live_dir.readable /\ snap_dirs[dd_search_dirs.hidden_snapshot_dir].readable
       THEN /\ dd_pc' = "bridge"
            /\ dd_pending' = DOMAIN snap_dirs[dd_search_dirs.hidden_snapshot_dir].entries
            /\ UNCHANGED dd_result
       ELSE /\ dd_pc' = "returned"
            /\ dd_result' = Err(IoError)
            /\ UNCHANGED dd_pending
    /\ unique_snap_filenames' = EmptyMap
    /\ UNCHANGED <<disk, bvvars, irvars, gvvars, lkvars, envvars, dd_search_dirs, udvars>>

DdVisitSnapshot ==
    /\ dd_pc = "bridge"
    /\ \E entry \in dd_pending :
         LET listing == snap_dirs[dd_search_dirs.hidden_snapshot_dir].entries[entry]
             found == IF listing.readable THEN DOMAIN listing.files ELSE {}
         IN
         /\ dd_pending' = dd_pending \ {entry}
         /\ unique_snap_filenames' =
              [n \in DOMAIN unique_snap_filenames \cup found |->
                  IF n \in found
                  THEN dir_entry(snapshot_dir(dd_search_dirs, entry), n)
                  ELSE unique_snap_filenames[n]]
    /\ UNCHANGED <<disk, bvvars, irvars, gvvars, lkvars, envvars, dd_search_dirs, dd_pc, dd_result, udvars>>

DdReturn ==
    /\ dd_pc = "bridge"
    /\ dd_pending = {}
    /\ \E all_deleted_versions \in
            Orders({unique_snap_filenames[n] :
                       n \in {x \in DOMAIN unique_snap_filenames : is_deleted(live_dir.names, x)}}) :
         dd_result' = Ok(all_deleted_versions)
    /\ dd_pc' = "returned"
    /\ UNCHANGED <<disk, bvvars, irvars, gvvars, lkvars, envvars, dd_search_dirs, dd_pending,
                   unique_snap_filenames, udvars>>

(***************************************************************************)
(* get_unique_deleted                                                      *)
(***************************************************************************)
\* symlink_metadata().modified() of a snapshot entry; NoStat when it fails
modify_time(path) ==
    LET h == CHOOSE d \in DOMAIN snap_dirs : starts_with(path, d)
    IN snap_dirs[h].entries[path[Len(h) + 1]].files[file_name(path)]

RECURSIVE with_modify_time(_)
with_modify_time(entries) ==
    IF entries = <<>> THEN <<>>
    ELSE LET t == modify_time(Head(entries).path) IN
         (IF t = NoStat THEN <<>> ELSE << <<t, Head(entries)>> >>)
             \o with_modify_time(Tail(entries))

RECURSIVE with_file_name(_)
with_file_name(seq) ==
    IF seq = <<>> THEN <<>>
    ELSE (IF has_file_name(Head(seq)[2].path) THEN <<Head(seq)>> ELSE <<>>)
             \o with_file_name(Tail(seq))

\* itertools group_by: a group is a maximal run of consecutive equal keys
RECURSIVE group_by(_)
group_by(seq) ==
    IF seq = <<>> THEN <<>>
    ELSE LET rest == group_by(Tail(seq)) IN
         IF rest # <<>> /\ file_name(Head(rest)[1][2].path) = file_name(Head(seq)[2].path)
         THEN << <<Head(seq)>> \o Head(rest) >> \o Tail(rest)
         ELSE << <<Head(seq)>> >> \o rest

\* Iterator::max_by_key: the last of the greatest
max_by_key(group) ==
    group[CHOOSE i \in 1..Len(group) :
             /\ \A j \in 1..Len(group) : group[j][1] <= group[i][1]
             /\ \A j \in 1..Len(group) : group[j][1] = group[i][1] => j <= i]

unique_deleted(prep) ==
    LET groups == group_by(with_file_name(prep))
    IN [i \in 1..Len(groups) |-> max_by_key(groups[i])[2]]

ud_after_task(t) == IF t + 1 > Len(selected_datasets(config)) THEN "group" ELSE "fanout"

UdPlan ==
    /\ ud_pc = "fanout"
    /\ ud_task <= Len(selected_datasets(config))
    /\ \E outcome \in get_search_dirs(config, PathDataFrom(requested_dir, File(1, 1)),
                                      selected_datasets(config)[ud_task]) :
         IF outcome.ok
         THEN /\ ud_plans' = outcome.val
              /\ dd_search_dirs' = Head(outcome.val)
              /\ dd_pc' = "call"
              /\ ud_pc' = "deleted"
              /\ UNCHANGED ud_task
         ELSE /\ ud_task' = ud_task + 1
              /\ ud_pc' = ud_after_task(ud_task)
              /\ UNCHANGED <<ud_plans, dd_search_dirs, dd_pc>>
    /\ UNCHANGED <<disk, bvvars, irvars, gvvars, lkvars, envvars, dd_pending, unique_snap_filenames, dd_result,
                   prep_deleted, ud_result>>

UdCollect ==
    /\ ud_pc = "deleted"
    /\ dd_pc = "returned"
    /\ prep_deleted' = IF dd_result.ok
                       THEN prep_deleted \o with_modify_time(dd_result.val)
                       ELSE prep_deleted
    /\ ud_plans' = Tail(ud_plans)
    /\ IF Tail(ud_plans) # <<>>
       THEN /\ dd_search_dirs' = Head(Tail(ud_plans))
            /\ dd_pc' = "call"
            /\ UNCHANGED <<ud_task, ud_pc>>
       ELSE /\ dd_pc' = "idle"
            /\ ud_task' = ud_task + 1
            /\ ud_pc' = ud_after_task(ud_task)
            /\ UNCHANGED dd_search_dirs
    /\ UNCHANGED <<disk, bvvars, irvars, gvvars, lkvars, envvars, dd_pending, unique_snap_filenames, dd_result,
                   ud_result>>

UdGroup ==
    /\ ud_pc = "group"
    /\ ud_result' = Ok(unique_deleted(prep_deleted))
    /\ ud_pc' = "done"
    /\ UNCHANGED <<disk, bvvars, irvars, gvvars, lkvars, envvars, ddvars, ud_task, ud_plans, prep_deleted>>

(***************************************************************************)
(* browse_view and the directory walker thread it spawns.  hangup_tx is    *)
(* bound by name and never moved, so it is dropped when browse_view        *)
(* returns; std::process::exit ends the walker thread with the process.    *)
(* The walker polls the hangup channel between directories.                *)
(***************************************************************************)
MsgBrowseFailed == "httm interactive file browse session failed."

BrowseSpawnDroppingHangup ==
    /\ process = "running"
    /\ bv_pc = "spawn"
    /\ hangup_tx' = "dropped"
    /\ walker_pc' = "check"
    /\ bv_pc' = "run_with"
    /\ UNCHANGED <<disk, gvvars, lkvars, delvars, irvars, process, selected_items, bv_result, rx_item,
                   shown, dirs_left>>

BrowseSpawn ==
    /\ process = "running"
    /\ bv_pc = "spawn"
    /\ hangup_tx' = "open"
    /\ walker_pc' = "check"
    /\ bv_pc' = "run_with"
    /\ UNCHANGED <<disk, gvvars, lkvars, delvars, irvars, process, selected_items, bv_result, rx_item,
                   shown, dirs_left>>

WalkerCheck ==
    /\ process = "running"
    /\ walker_pc = "check"
    /\ walker_pc' = IF hangup_tx = "dropped" THEN "stopped"
                    ELSE IF dirs_left = 0 THEN "finished"
                    ELSE "enumerate"
    /\ UNCHANGED <<disk, gvvars, lkvars, delvars, irvars, process, bv_pc, hangup_tx, selected_items,
                   bv_result, rx_item, shown, dirs_left>>

WalkerEnumerate ==
    /\ process = "running"
    /\ walker_pc = "enumerate"
    /\ \E n \in 0..MaxItems : rx_item' = rx_item + n
    /\ dirs_left' = dirs_left - 1
    /\ walker_pc' = "check"
    /\ UNCHANGED <<disk, gvvars, lkvars, delvars, irvars, process, bv_pc, hangup_tx, selected_items,
                   bv_result, shown>>

WalkerError ==
    /\ process = "running"
    /\ walker_pc = "enumerate"
    /\ process' = "exited"
    /\ UNCHANGED <<disk, gvvars, lkvars, delvars, irvars, bv_pc, hangup_tx, selected_items, bv_result,
                   rx_item, shown, walker_pc, dirs_left>>

PickerRead ==
    /\ process = "running"
    /\ bv_pc = "run_with"
    /\ rx_item > 0
    /\ rx_item' = rx_item - 1
    /\ shown' = shown + 1
    /\ UNCHANGED <<disk, gvvars, lkvars, delvars, irvars, process, bv_pc, hangup_tx, selected_items,
                   bv_result, walker_pc, dirs_left>>

PickerAccept ==
    /\ process = "running"
    /\ bv_pc = "run_with"
    /\ \E k \in 0..shown : selected_items' = k
    /\ bv_pc' = "output"
    /\ UNCHANGED <<disk, gvvars, lkvars, delvars, irvars, process, hangup_tx, bv_result, rx_item, shown,
                   walker_pc, dirs_left>>

PickerAbort ==
    /\ process = "running"
    /\ bv_pc = "run_with"
    /\ process' = "exited"
    /\ UNCHANGED <<disk, gvvars, lkvars, delvars, irvars, bv_pc, hangup_tx, selected_items, bv_result,
                   rx_item, shown, walker_pc, dirs_left>>

PickerFail ==
    /\ process = "running"
    /\ bv_pc = "run_with"
    /\ bv_result' = Err(MsgBrowseFailed)
    /\ hangup_tx' = "dropped"
    /\ bv_pc' = "returned"
    /\ UNCHANGED <<disk, gvvars, lkvars, delvars, irvars, process, selected_items, rx_item, shown,
                   walker_pc, dirs_left>>

BrowseReturn ==
    /\ process = "running"
    /\ bv_pc = "output"
    /\ bv_result' = Ok(selected_items)
    /\ hangup_tx' = "dropped"
    /\ bv_pc' = "returned"
    /\ UNCHANGED <<disk, gvvars, lkvars, delvars, irvars, process, selected_items, rx_item, shown,
                   walker_pc, dirs_left>>

(***************************************************************************)
(* interactive_restore.  select_restore_view returns a line of the buffer  *)
(* it is given, here the consent buffer; the informational lines of that   *)
(* buffer are abbreviated.  The function ends the process on success and   *)
(* on a declined restore, and returns only its errors.                     *)
(***************************************************************************)
MsgNoSource == "Source location does not exist on disk. Quitting."

MsgNoOriginal == "httm unable to determine original file path in overwrite mode.  Quitting."

MsgDestinationExists == "httm will not restore to that file, as a file with the same path name already exists. Quitting."

MsgSelectFailed == "httm select/restore session failed."

MsgPermissionDenied == "httm restore failed because the user did not have the correct permissions to restore to"

MsgRestoreFailed == "httm restore failed for the following reason"

Lower == <<"a", "b", "c", "e", "f", "h", "i", "l", "m", "n", "o", "p", "r", "s", "t", "w", "y">>

Upper == <<"A", "B", "C", "E", "F", "H", "I", "L", "M", "N", "O", "P", "R", "S", "T", "W", "Y">>

to_ascii_uppercase(str) ==
    [i \in 1..Len(str) |->
        IF \E k \in 1..Len(Lower) : Lower[k] = str[i]
        THEN Upper[CHOOSE k \in 1..Len(Lower) : Lower[k] = str[i]]
        ELSE str[i]]

preview_buffer ==
    {<<"h", "t", "t", "m", " ", "w", "i", "l", "l", " ", "c", "o", "p", "y">>,
     <<>>,
     <<"t", "o", ":">>,
     <<"Y", "E", "S">>,
     <<"N", "O">>}

always_yes(consent) == TRUE

is_yes(consent) == consent \in {<<"Y", "E", "S">>, <<"Y">>}

is_no(consent) == consent \in {<<"N", "O">>, <<"N">>}

RestorePrepare ==
    /\ process = "running"
    /\ ir_pc = "start"
    /\ IF ~snap_metadata
       THEN ir_pc' = "returned" /\ ir_result' = Err(MsgNoSource)
       ELSE IF opt_overwrite
            THEN IF original_found
                 THEN ir_pc' = "prompt" /\ UNCHANGED ir_result
                 ELSE ir_pc' = "returned" /\ ir_result' = Err(MsgNoOriginal)
            ELSE IF dest_exists
                 THEN ir_pc' = "returned" /\ ir_result' = Err(MsgDestinationExists)
                 ELSE ir_pc' = "prompt" /\ UNCHANGED ir_result
    /\ UNCHANGED <<disk, gvvars, lkvars, delvars, bvvars, opt_overwrite, snap_metadata,
                   original_found, dest_exists, user_consent, prompts, copies>>

RestorePrompt ==
    /\ process = "running"
    /\ ir_pc = "prompt"
    /\ prompts < MaxPrompts
    /\ prompts' = prompts + 1
    /\ \E line \in preview_buffer : user_consent' = to_ascii_uppercase(line)
    /\ ir_pc' = "answered"
    /\ UNCHANGED <<disk, gvvars, lkvars, delvars, bvvars, opt_overwrite, snap_metadata,
                   original_found, dest_exists, copies, ir_result>>

RestoreAbort ==
    /\ process = "running"
    /\ ir_pc = "prompt"
    /\ prompts < MaxPrompts
    /\ prompts' = prompts + 1
    /\ process' = "exited"
    /\ UNCHANGED <<disk, gvvars, lkvars, delvars, bv_pc, hangup_tx, selected_items, bv_result,
                   rx_item, shown, walker_pc, dirs_left, ir_pc, opt_overwrite, snap_metadata,
                   original_found, dest_exists, user_consent, copies, ir_result>>

RestoreSessionFail ==
    /\ process = "running"
    /\ ir_pc = "prompt"
    /\ prompts < MaxPrompts
    /\ prompts' = prompts + 1
    /\ ir_result' = Err(MsgSelectFailed)
    /\ ir_pc' = "returned"
    /\ UNCHANGED <<disk, gvvars, lkvars, delvars, bvvars, opt_overwrite, snap_metadata,
                   original_found, dest_exists, user_consent, copies>>

RestoreCopy ==
    /\ process = "running"
    /\ ir_pc = "answered"
    /\ is_yes(user_consent)
    /\ copies' = copies + 1
    /\ \/ /\ dest_exists' = TRUE
          /\ ir_pc' = "exit"
          /\ process' = "exited"
          /\ UNCHANGED ir_result
       \/ /\ \E msg \in {MsgPermissionDenied, MsgRestoreFailed} : ir_result' = Err(msg)
          /\ ir_pc' = "returned"
          /\ UNCHANGED <<process, dest_exists>>
    /\ UNCHANGED <<disk, gvvars, lkvars, delvars, bv_pc, hangup_tx, selected_items, bv_result,
                   rx_item, shown, walker_pc, dirs_left, opt_overwrite, snap_metadata,
                   original_found, user_consent, prompts>>

RestoreDecline ==
    /\ process = "running"
    /\ ir_pc = "answered"
    /\ ~is_yes(user_consent)
    /\ is_no(user_consent)
    /\ ir_pc' = "exit"
    /\ process' = "exited"
    /\ UNCHANGED <<disk, gvvars, lkvars, delvars, bv_pc, hangup_tx, selected_items, bv_result,
                   rx_item, shown, walker_pc, dirs_left, opt_overwrite, snap_metadata,
                   original_found, dest_exists, user_consent, prompts, copies, ir_result>>

RestoreAskAgain ==
    /\ process = "running"
    /\ ir_pc = "answered"
    /\ ~is_yes(user_consent)
    /\ ~is_no(user_consent)
    /\ ir_pc' = "prompt"
    /\ UNCHANGED <<disk, gvvars, lkvars, delvars, bvvars, opt_overwrite, snap_metadata,
                   original_found, dest_exists, user_consent, prompts, copies, ir_result>>

(***************************************************************************)
(* Specifications.                                                         *)
(***************************************************************************)
NoSearchDirs == [hidden_snapshot_dir |-> Root, relative_path |-> Root]

HiddenDirs == {Join(m, ZfsSnapshot) : m \in MountPoints}

LivePathData(path, phantom) ==
    IF phantom THEN PathDataFrom(path, NoFile) ELSE PathDataFrom(path, File(1, 1))

GvIdle ==
    /\ search_dirs = NoSearchDirs
    /\ gv_pc = "idle"
    /\ pending = {}
    /\ unique_versions = EmptyMap
    /\ gv_result = Ok(<<>>)

NotCalled == [ok |-> FALSE, val |-> <<>>, err |-> "not called"]

LkStart ==
    /\ plans = <<>>
    /\ immediate = NotCalled
    /\ planned = NotCalled
    /\ datasets = NotCalled
    /\ reverse_index = EmptyMap
    /\ all_snaps = <<>>
    /\ dropped = {}
    /\ live_versions = <<>>
    /\ lk_result = Ok(<<>>)

LkIdle ==
    /\ config = [opt_alt_replicated |-> FALSE, opt_no_live_vers |-> FALSE,
                 snap_point |-> Native(<<>>)]
    /\ path_data = <<>>
    /\ lk_pc = "none"
    /\ task = 1
    /\ LkStart

NoListing == [readable |-> FALSE, files |-> <<>>]

DdIdle ==
    /\ dd_search_dirs = NoSearchDirs
    /\ dd_pc = "idle"
    /\ dd_pending = {}
    /\ unique_snap_filenames = EmptyMap
    /\ dd_result = Ok(<<>>)

UdStart ==
    /\ ud_task = 1
    /\ ud_plans = <<>>
    /\ prep_deleted = <<>>
    /\ ud_result = Ok(<<>>)

DelIdle ==
    /\ live_dir = [readable |-> FALSE, names |-> {}]
    /\ snap_dirs = [d \in HiddenDirs |-> Unreadable]
    /\ requested_dir = Root
    /\ DdIdle
    /\ ud_pc = "none"
    /\ UdStart

BvIdle ==
    /\ process = "running"
    /\ bv_pc = "none"
    /\ hangup_tx = "none"
    /\ selected_items = 0
    /\ bv_result = Ok(0)
    /\ rx_item = 0
    /\ shown = 0
    /\ walker_pc = "none"
    /\ dirs_left = 0

IrIdle ==
    /\ ir_pc = "none"
    /\ opt_overwrite = FALSE
    /\ snap_metadata = FALSE
    /\ original_found = FALSE
    /\ dest_exists = FALSE
    /\ user_consent = <<>>
    /\ prompts = 0
    /\ copies = 0
    /\ ir_result = Ok(0)

\* get_versions alone, on one plan, over every listing of its snapshot root.
VersionPlans ==
    {[hidden_snapshot_dir |-> Join(Root, ZfsSnapshot), relative_path |-> rel] :
        rel \in {<<>>, << <<"u">> >>}}

InitVersions ==
    /\ search_dirs \in VersionPlans
    /\ disk \in {[d \in {search_dirs.hidden_snapshot_dir} |-> l] : l \in Listings \cup {Unreadable}}
    /\ gv_pc = "call"
    /\ pending = {}
    /\ unique_versions = EmptyMap
    /\ gv_result = Ok(<<>>)
    /\ LkIdle
    /\ DelIdle
    /\ BvIdle
    /\ IrIdle

NextVersions == ReadSnapshotRoot \/ VisitEntry \/ SortVersions

SpecVersions == InitVersions /\ [][NextVersions]_vars

\* get_search_dirs alone, for one path and one dataset type, over every
\* mount inventory and every user-defined pair of directories.
LocateSnapPoints ==
    {Native(inv) : inv \in Inventories(MountEntries, MaxMounts)}
        \cup {UserDefined(sd, ld) : sd \in MountPoints, ld \in MountPoints}

InitLocate ==
    /\ config \in [opt_alt_replicated : BOOLEAN, opt_no_live_vers : {FALSE},
                   snap_point : LocateSnapPoints]
    /\ path_data \in {<<LivePathData(p, FALSE)>> : p \in PathsUpTo(MaxDepth)}
    /\ task \in 1..NTasks
    /\ lk_pc = "fanout"
    /\ disk = [d \in HiddenDirs |-> Unreadable]
    /\ GvIdle
    /\ LkStart
    /\ DelIdle
    /\ BvIdle
    /\ IrIdle

NextLocate == PlanTask

SpecLocate == InitLocate /\ [][NextLocate]_vars

\* get_alt_replicated_dataset alone, for every mount point as the immediate
\* dataset mount and every mount inventory.
CallAltReplicated ==
    /\ lk_pc = "replica"
    /\ \E res \in get_alt_replicated_dataset(immediate.val, config.snap_point.mounts) :
         datasets' = res
    /\ reverse_index' = unique_mounts(config.snap_point.mounts)
    /\ lk_pc' = "replicated"
    /\ UNCHANGED <<disk, bvvars, irvars, gvvars, config, path_data, task, plans, immediate, planned, all_snaps,
                   dropped, live_versions, lk_result, delvars>>

InitReplica ==
    /\ config \in [opt_alt_replicated : {TRUE}, opt_no_live_vers : {FALSE},
                   snap_point : {Native(inv) : inv \in Inventories(MountEntries, MaxMounts)}]
    /\ path_data = <<>>
    /\ task = 1
    /\ lk_pc = "replica"
    /\ disk = [d \in HiddenDirs |-> Unreadable]
    /\ GvIdle
    /\ plans = <<>>
    /\ immediate \in {Ok(m) : m \in MountPoints}
    /\ planned = NotCalled
    /\ datasets = NotCalled
    /\ reverse_index = EmptyMap
    /\ all_snaps = <<>>
    /\ dropped = {}
    /\ live_versions = <<>>
    /\ lk_result = Ok(<<>>)
    /\ DelIdle
    /\ BvIdle
    /\ IrIdle

NextReplica == CallAltReplicated

SpecReplica == InitReplica /\ [][NextReplica]_vars

\* browse_view and its walker thread, over the number of directories the
\* walker has to enumerate.
InitBrowse ==
    /\ process = "running"
    /\ bv_pc = "spawn"
    /\ hangup_tx = "none"
    /\ selected_items = 0
    /\ bv_result = Ok(0)
    /\ rx_item = 0
    /\ shown = 0
    /\ walker_pc = "none"
    /\ dirs_left \in 1..MaxDirs
    /\ disk = [d \in HiddenDirs |-> Unreadable]
    /\ GvIdle
    /\ LkIdle
    /\ DelIdle
    /\ IrIdle

NextBrowse ==
    \/ BrowseSpawn
    \/ WalkerCheck
    \/ WalkerEnumerate
    \/ WalkerError
    \/ PickerRead
    \/ PickerAccept
    \/ PickerAbort
    \/ PickerFail
    \/ BrowseReturn

SpecBrowse == InitBrowse /\ [][NextBrowse]_vars

\* interactive_restore, over the mode, the state of the source and of the
\* destination, and the answers of the user.
InitRestore ==
    /\ ir_pc = "start"
    /\ opt_overwrite \in BOOLEAN
    /\ snap_metadata \in BOOLEAN
    /\ original_found \in BOOLEAN
    /\ dest_exists \in BOOLEAN
    /\ user_consent = <<>>
    /\ prompts = 0
    /\ copies = 0
    /\ ir_result = Ok(0)
    /\ disk = [d \in HiddenDirs |-> Unreadable]
    /\ GvIdle
    /\ LkIdle
    /\ DelIdle
    /\ BvIdle

NextRestore ==
    \/ RestorePrepare
    \/ RestorePrompt
    \/ RestoreAbort
    \/ RestoreSessionFail
    \/ RestoreCopy
    \/ RestoreDecline
    \/ RestoreAskAgain

SpecRestore == InitRestore /\ [][NextRestore]_vars

\* lookup_exec as a whole.
LookupPaths == {<< <<"u">>, <<"u">> >>, << <<"u", "b">>, <<"u">> >>}

LookupEntries ==
    {[filesystem |-> <<"r">>, mount |-> Root],
     [filesystem |-> <<"x", "r">>, mount |-> << <<"u">> >>]}

LookupSnapPoints ==
    {Native(inv) : inv \in Inventories(LookupEntries, MaxMounts)}
        \cup {UserDefined(sd, ld) : sd \in {Root}, ld \in {Root, << <<"u">> >>}}

LookupListings ==
    {Unreadable,
     Listing([e \in {SnapName(1)} |-> NoFile]),
     Listing([e \in {SnapName(1)} |-> File(1, 1)])}

LookupDisks ==
    {[d \in HiddenDirs |->
        IF d = Join(Root, ZfsSnapshot) THEN a
        ELSE IF d = Join(<< <<"u">> >>, ZfsSnapshot) THEN b
        ELSE Unreadable] : a \in LookupListings, b \in LookupListings}

Init ==
    /\ config \in [opt_alt_replicated : BOOLEAN, opt_no_live_vers : BOOLEAN,
                   snap_point : LookupSnapPoints]
    /\ path_data \in UNION {[1..n -> {LivePathData(p, ph) : p \in LookupPaths, ph \in BOOLEAN}] :
                               n \in 0..MaxPaths}
    /\ task = 1
    /\ lk_pc = IF path_data = <<>> THEN "assemble" ELSE "fanout"
    /\ disk \in LookupDisks
    /\ GvIdle
    /\ LkStart
    /\ DelIdle
    /\ BvIdle
    /\ IrIdle

Next ==
    \/ PlanTask
    \/ ReadSnapshotRoot
    \/ VisitEntry
    \/ SortVersions
    \/ CollectVersions
    \/ Assemble

Spec == Init /\ [][Next]_vars

\* get_deleted_per_dataset alone, on one plan, over every listing of the
\* requested directory and of the snapshots under one snapshot root.
DeletedDir == << <<"u", "b">> >>

LiveDirs == {[readable |-> FALSE, names |-> {}]} \cup {[readable |-> TRUE, names |-> N] : N \in SUBSET FileNames}

SnapshotListings(stats) ==
    {NoListing} \cup UNION {{[readable |-> TRUE, files |-> f] : f \in [N -> stats]} : N \in SUBSET FileNames}

SnapshotRoots(names, stats) ==
    {Unreadable} \cup UNION {{Listing(f) : f \in [D -> SnapshotListings(stats)]} : D \in SUBSET names}

InitDeleted ==
    /\ requested_dir = DeletedDir
    /\ dd_search_dirs = [hidden_snapshot_dir |-> Join(Root, ZfsSnapshot), relative_path |-> DeletedDir]
    /\ live_dir \in LiveDirs
    /\ snap_dirs \in {[d \in {dd_search_dirs.hidden_snapshot_dir} |-> r] : r \in SnapshotRoots(SnapNames, {1})}
    /\ dd_pc = "call"
    /\ dd_pending = {}
    /\ unique_snap_filenames = EmptyMap
    /\ dd_result = Ok(<<>>)
    /\ ud_pc = "none"
    /\ UdStart
    /\ disk = [d \in HiddenDirs |-> Unreadable]
    /\ GvIdle
    /\ LkIdle
    /\ BvIdle
    /\ IrIdle

NextDeleted == DdReadDirs \/ DdVisitSnapshot \/ DdReturn

SpecDeleted == InitDeleted /\ [][NextDeleted]_vars

\* get_unique_deleted as a whole, over a dataset and its replica.
UniqueInventories ==
    {<<>>,
     <<[filesystem |-> <<"r">>, mount |-> Root]>>,
     <<[filesystem |-> <<"r">>, mount |-> Root], [filesystem |-> <<"x", "r">>, mount |-> << <<"u">> >>]>>}

UniqueSnapDirs ==
    {[d \in HiddenDirs |->
        IF d = Join(Root, ZfsSnapshot) THEN a
        ELSE IF d = Join(<< <<"u">> >>, ZfsSnapshot) THEN b
        ELSE Unreadable] :
        a \in SnapshotRoots({SnapName(1)}, {NoStat} \cup Times),
        b \in SnapshotRoots({SnapName(1)}, {NoStat} \cup Times)}

InitUnique ==
    /\ config \in [opt_alt_replicated : BOOLEAN, opt_no_live_vers : {FALSE},
                   snap_point : {Native(inv) : inv \in UniqueInventories}]
    /\ requested_dir = DeletedDir
    /\ live_dir \in LiveDirs
    /\ snap_dirs \in UniqueSnapDirs
    /\ DdIdle
    /\ ud_pc = "fanout"
    /\ UdStart
    /\ disk = [d \in HiddenDirs |-> Unreadable]
    /\ GvIdle
    /\ path_data = <<>>
    /\ lk_pc = "none"
    /\ task = 1
    /\ LkStart
    /\ BvIdle
    /\ IrIdle

NextUnique == UdPlan \/ DdReadDirs \/ DdVisitSnapshot \/ DdReturn \/ UdCollect \/ UdGroup

SpecUnique == InitUnique /\ [][NextUnique]_vars

(***************************************************************************)
(* Claims about get_versions.                                              *)
(***************************************************************************)
Returned == gv_pc = "returned" /\ gv_result.ok

Snapshots == disk[search_dirs.hidden_snapshot_dir].entries

Holding(t, z) == {e \in DOMAIN Snapshots : Snapshots[e] = File(t, z)}

\* C1: no two records returned by get_versions share the same (mtime, size)
\* pair, and a pair that one or several snapshots hold survives in exactly
\* one record.
C1_UniqueByMtimeSize ==
    Returned =>
        LET r == gv_result.val IN
        /\ \A i, j \in 1..Len(r) :
             (r[i].system_time = r[j].system_time /\ r[i].size = r[j].size) => i = j
        /\ \A t \in Times, z \in Sizes :
             Holding(t, z) # {} =>
                 Cardinality({i \in 1..Len(r) : r[i].system_time = t /\ r[i].size = z}) = 1

C1_Witness ==
    /\ Returned
    /\ \E t \in Times, z \in Sizes : Cardinality(Holding(t, z)) >= 2
    /\ \E t \in Times, z1, z2 \in Sizes : z1 # z2 /\ Holding(t, z1) # {} /\ Holding(t, z2) # {}

\* C2: the sequence returned by get_versions is monotone non-decreasing in
\* mtime, whatever the order in which the snapshot entries were visited.
C2_SortedByMtime ==
    Returned =>
        \A i \in 1..(Len(gv_result.val) - 1) :
            gv_result.val[i].system_time <= gv_result.val[i + 1].system_time

C2_Witness ==
    /\ Returned
    /\ Len(gv_result.val) >= 3
    /\ gv_result.val[1].system_time < gv_result.val[3].system_time

\* C3: when the snapshot root is readable, the (mtime, size) keys of the
\* returned records are exactly the keys of the non-phantom candidates over
\* all snapshot entries; every returned record is non-phantom and is the
\* candidate of some snapshot entry holding that file.
C3_ExactlyNonPhantom ==
    Returned =>
        LET r == gv_result.val IN
        /\ {<<r[i].system_time, r[i].size>> : i \in 1..Len(r)}
             = {<<Snapshots[e].mtime, Snapshots[e].len>> :
                   e \in {x \in DOMAIN Snapshots : Snapshots[x].present}}
        /\ \A i \in 1..Len(r) :
             /\ ~r[i].is_phantom
             /\ \E e \in DOMAIN Snapshots :
                  /\ Snapshots[e] = File(r[i].system_time, r[i].size)
                  /\ r[i].path_buf =
                       search_dirs.hidden_snapshot_dir \o <<e>> \o search_dirs.relative_path

C3_Witness ==
    /\ Returned
    /\ Len(gv_result.val) >= 1
    /\ \E e \in DOMAIN Snapshots : ~Snapshots[e].present

(***************************************************************************)
(* Claims about get_immediate_dataset and get_search_dirs (SpecLocate:     *)
(* one input path, one call of get_search_dirs).                           *)
(***************************************************************************)
ThePath == path_data[1].path_buf

TheMounts == {config.snap_point.mounts[i].mount : i \in 1..Len(config.snap_point.mounts)}

ComponentPrefix(m, p) == Len(m) <= Len(p) /\ \A i \in 1..Len(m) : m[i] = p[i]

ParentOf(p) == IF Len(p) = 0 THEN <<>> ELSE [i \in 1..(Len(p) - 1) |-> p[i]]

Qualifying == {m \in TheMounts : ComponentPrefix(m, ParentOf(ThePath))}

Located == config.snap_point.kind = "Native" /\ immediate # NotCalled

\* C7: get_immediate_dataset returns a mount point that is a component-wise
\* prefix of the parent of the path (of the root when the path has none), of
\* the greatest length among the mounts that are such prefixes, and fails
\* with the no-qualifying-dataset error exactly when no mount is one.
C7_LongestPrefixOfParent ==
    Located =>
        IF Qualifying = {}
        THEN ~immediate.ok /\ immediate.err = MsgNoQualifyingDataset
        ELSE /\ immediate.ok
             /\ immediate.val \in Qualifying
             /\ \A m \in Qualifying : Len(Bytes(m)) <= Len(Bytes(immediate.val))

C7_Witness ==
    /\ Located
    /\ immediate.ok
    /\ Cardinality(Qualifying) >= 2
    /\ \E m \in TheMounts \ Qualifying :
         /\ Len(Bytes(m)) <= Len(Bytes(ParentOf(ThePath)))
         /\ \A i \in 1..Len(Bytes(m)) : Bytes(m)[i] = Bytes(ParentOf(ThePath))[i]

\* C8 as stated: when the requested path is exactly a mount point of the
\* inventory, get_immediate_dataset returns that mount point and the
\* relative path of every plan is empty.
C8_MountPointIsItsOwnDataset ==
    (Located /\ ThePath \in TheMounts) =>
        /\ immediate = Ok(ThePath)
        /\ planned.ok => \A i \in 1..Len(planned.val) : planned.val[i].relative_path = <<>>

(***************************************************************************)
(* Claims about lookup_exec (Spec).                                        *)
(***************************************************************************)
Done == lk_pc = "done"

RequestErrors == {MsgNoQualifyingDataset, IoError, MsgLocalDir, MsgSnapDirLocalDir}

NothingExists ==
    /\ Len(all_snaps) = 0
    /\ \A i \in 1..Len(path_data) : config.opt_no_live_vers \/ path_data[i].is_phantom

C10_NothingEverExisted ==
    Done =>
        IF NothingExists
        THEN ~lk_result.ok /\ lk_result.err = MsgNothingEverExisted
        ELSE /\ lk_result.ok
             /\ lk_result.val[1] = all_snaps
             /\ lk_result.val[2] = live_versions

C10_Witness ==
    /\ Done
    /\ ~lk_result.ok
    /\ config.opt_no_live_vers
    /\ \E i \in 1..Len(path_data) : ~path_data[i].is_phantom

(***************************************************************************)
(* Claims about get_deleted_per_dataset (SpecDeleted) and                  *)
(* get_unique_deleted (SpecUnique).                                        *)
(***************************************************************************)
SnapshotEntries == snap_dirs[dd_search_dirs.hidden_snapshot_dir].entries

ListedIn(e) == IF SnapshotEntries[e].readable THEN DOMAIN SnapshotEntries[e].files ELSE {}

ListedInSnapshots == UNION {ListedIn(e) : e \in DOMAIN SnapshotEntries}

LastOf(path) == path[Len(path)]

\* C4: with the requested directory and the snapshot root readable, the file
\* names returned by get_deleted_per_dataset are exactly the names listed in
\* some snapshot + relative path minus the names listed in the requested
\* directory, each returned once.
C4_DeletedNames ==
    (dd_pc = "returned" /\ live_dir.readable
        /\ snap_dirs[dd_search_dirs.hidden_snapshot_dir].readable) =>
        /\ dd_result.ok
        /\ {LastOf(dd_result.val[i].path) : i \in 1..Len(dd_result.val)}
             = ListedInSnapshots \ live_dir.names
        /\ \A i, j \in 1..Len(dd_result.val) :
             LastOf(dd_result.val[i].path) = LastOf(dd_result.val[j].path) => i = j

C4_Witness ==
    /\ dd_pc = "returned"
    /\ dd_result.ok
    /\ \E n \in FileNames :
         /\ n \notin live_dir.names
         /\ Cardinality({e \in DOMAIN SnapshotEntries : n \in ListedIn(e)}) >= 2
    /\ \E n \in live_dir.names : n \in ListedInSnapshots
    /\ \E e \in DOMAIN SnapshotEntries : ~SnapshotEntries[e].readable

UniqueDone == ud_pc = "done"

\* C5: no two entries returned by get_unique_deleted have the same file
\* name, for any number of plans and any order of the per-plan outputs.
C5_UniqueByFileName ==
    UniqueDone =>
        \A i, j \in 1..Len(ud_result.val) :
            LastOf(ud_result.val[i].path) = LastOf(ud_result.val[j].path) => i = j

\* C6: every entry returned by get_unique_deleted can be stat'd and has the
\* greatest modification time among all the candidates of its file name
\* across all plans, and every file name with a candidate that can be
\* stat'd is returned.
C6_LatestOfEachName ==
    UniqueDone =>
        /\ \A i \in 1..Len(ud_result.val) :
             /\ modify_time(ud_result.val[i].path) # NoStat
             /\ \A k \in 1..Len(prep_deleted) :
                  LastOf(prep_deleted[k][2].path) = LastOf(ud_result.val[i].path)
                      => prep_deleted[k][1] <= modify_time(ud_result.val[i].path)
        /\ \A k \in 1..Len(prep_deleted) :
             \E i \in 1..Len(ud_result.val) :
                 LastOf(ud_result.val[i].path) = LastOf(prep_deleted[k][2].path)

(***************************************************************************)
(* lookup_exec: the live set (C11), checked under Spec.                    *)
(***************************************************************************)
NoSnapshotHolds ==
    \A d \in DOMAIN disk :
        disk[d].readable => \A e \in DOMAIN disk[d].entries : ~disk[d].entries[e].present

\* C11: when lookup_exec succeeds, the live set is the input path list,
\* unchanged and in input order, if opt_no_live_vers is false, and empty if
\* it is true; for one non-phantom live file that no snapshot contains, with
\* live not suppressed, the result is (empty historical, [F]).
C11_LiveSet ==
    Done =>
        /\ lk_result.ok =>
              lk_result.val[2] = (IF config.opt_no_live_vers THEN <<>> ELSE path_data)
        /\ (/\ ~config.opt_no_live_vers
            /\ Len(path_data) = 1
            /\ ~path_data[1].is_phantom
            /\ NoSnapshotHolds) => lk_result = Ok(<< <<>>, path_data >>)

C11_Witness ==
    /\ Done
    /\ lk_result.ok
    /\ ~config.opt_no_live_vers
    /\ Len(path_data) = 2
    /\ path_data[1] # path_data[2]
    /\ ~path_data[1].is_phantom
    /\ NoSnapshotHolds
    /\ lk_result.val = << <<>>, path_data >>

(***************************************************************************)
(* get_search_dirs: the plans (C12, C13), checked under SpecLocate.        *)
(***************************************************************************)
Planned == planned # NotCalled

IsUserDefined == config.snap_point.kind = "UserDefined"

IsSuffix(a, b) == \E k \in 0..Len(b) : SubSeq(b, k + 1, Len(b)) = a

Replicas ==
    {m \in DOMAIN reverse_index :
        /\ immediate.val \in DOMAIN reverse_index
        /\ reverse_index[m] # reverse_index[immediate.val]
        /\ IsSuffix(reverse_index[immediate.val], reverse_index[m])}

PlanRoots == {planned.val[i].hidden_snapshot_dir : i \in 1..Len(planned.val)}

\* C12: every plan get_search_dirs produces has snapshot_root =
\* dataset_of_interest joined with .zfs/snapshot and relative_subpath = the
\* path with the reference prefix removed.  Native, MostImmediate: one plan,
\* dataset_of_interest = reference = the immediate mount.  Native,
\* AltReplicated: one plan per replica mount, dataset_of_interest = the
\* replica mount, the prefix removed still the immediate mount.
\* UserDefined, either kind: one plan, dataset_of_interest = snap_dir, the
\* prefix removed = local_dir.
C12_SearchPlans ==
    (Planned /\ planned.ok) =>
        LET reference == IF IsUserDefined THEN config.snap_point.local_dir ELSE immediate.val
            interest == IF IsUserDefined THEN {config.snap_point.snap_dir}
                        ELSE IF task_dataset_type(task) = "MostImmediate" THEN {immediate.val}
                        ELSE Replicas
        IN /\ \A i \in 1..Len(planned.val) :
                 reference \o planned.val[i].relative_path = ThePath
           /\ PlanRoots = {m \o ZfsSnapshot : m \in interest}
           /\ Len(planned.val) = Cardinality(interest)

C12_Witness ==
    /\ Planned
    /\ planned.ok
    /\ ~IsUserDefined
    /\ task_dataset_type(task) = "AltReplicated"
    /\ Len(planned.val) = 2
    /\ immediate.val \o ZfsSnapshot \notin PlanRoots
    /\ \A i \in 1..2 : Len(planned.val[i].relative_path) = Len(ThePath) - Len(immediate.val)

\* C13: under UserDefined, get_search_dirs fails with the wrong working
\* directory error, and returns no plan, whenever local_dir is not a
\* component-wise prefix of the input path, for either dataset kind.
C13_WrongWorkingDirectory ==
    (Planned /\ IsUserDefined /\ ~ComponentPrefix(config.snap_point.local_dir, ThePath)) =>
        planned = Err(MsgLocalDir)

C13_Witness ==
    /\ Planned
    /\ IsUserDefined
    /\ config.opt_alt_replicated
    /\ task = 2
    /\ config.snap_point.local_dir = << <<"u">> >>
    /\ ThePath = << <<"u", "b">>, <<"u">> >>
    /\ planned = Err(MsgLocalDir)

(***************************************************************************)
(* get_alt_replicated_dataset (C14 to C17), checked under SpecReplica.     *)
(***************************************************************************)
Called == lk_pc = "replicated"

TheInventory == config.snap_point.mounts

ReturnedMounts == {datasets.val[i][1] : i \in 1..Len(datasets.val)}

\* C14: when it succeeds, get_alt_replicated_dataset returns exactly the
\* mount points whose indexed filesystem name differs from the one indexed
\* for the immediate mount and ends with it as a plain string suffix; none
\* that satisfies both is omitted.
C14_ExactlyTheReplicas ==
    (Called /\ datasets.ok) => ReturnedMounts = Replicas

C14_Witness ==
    /\ Called
    /\ datasets.ok
    /\ reverse_index[immediate.val] = <<"r">>
    /\ \E m \in ReturnedMounts : reverse_index[m] = <<"x", "r">>
    /\ \E m \in DOMAIN reverse_index \ ReturnedMounts : reverse_index[m] = <<"r", "x">>

\* C15: the returned pairs are ordered by ascending mount-point length of
\* the replica mount, and the second component of every pair is the
\* immediate mount passed in.
C15_ShortestFirst ==
    (Called /\ datasets.ok) =>
        /\ \A i, j \in 1..Len(datasets.val) :
              i < j => os_len(datasets.val[i][1]) <= os_len(datasets.val[j][1])
        /\ \A i \in 1..Len(datasets.val) : datasets.val[i][2] = immediate.val

C15_Witness ==
    /\ Called
    /\ datasets.ok
    /\ Len(datasets.val) = 2
    /\ os_len(datasets.val[1][1]) < os_len(datasets.val[2][1])
    /\ immediate.val # Root

Occurrences(m) == {i \in 1..Len(TheInventory) : TheInventory[i].mount = m}

FirstOccurrence(m) == CHOOSE i \in Occurrences(m) : \A j \in Occurrences(m) : i <= j

LastOccurrence(m) == CHOOSE i \in Occurrences(m) : \A j \in Occurrences(m) : j <= i

\* C17 as stated: a mount point listed more than once is indexed with the
\* filesystem name of its first occurrence in the inventory.
C17_FirstOccurrenceWins ==
    Called => \A m \in DOMAIN reverse_index :
                  reverse_index[m] = TheInventory[FirstOccurrence(m)].filesystem

\* C17: a mount point listed more than once is indexed with the filesystem
\* name of its last occurrence in the inventory, whatever the scheduling.
C17_LastOccurrenceWins ==
    Called => /\ DOMAIN reverse_index = {TheInventory[i].mount : i \in 1..Len(TheInventory)}
              /\ \A m \in DOMAIN reverse_index :
                    reverse_index[m] = TheInventory[LastOccurrence(m)].filesystem

C17_Witness ==
    /\ Called
    /\ \E m \in DOMAIN reverse_index :
          /\ TheInventory[FirstOccurrence(m)].filesystem # TheInventory[LastOccurrence(m)].filesystem
          /\ reverse_index[m] = TheInventory[LastOccurrence(m)].filesystem

(***************************************************************************)
(* lookup_exec with opt_alt_replicated (C18, C20), checked under Spec.     *)
(***************************************************************************)
OnePathAltReplicated ==
    /\ Done
    /\ config.opt_alt_replicated
    /\ config.snap_point.kind = "Native"
    /\ Len(path_data) = 1
    /\ immediate.ok

RootOf(m) == m \o ZfsSnapshot

HeldUnder(m) ==
    IF disk[RootOf(m)].readable
    THEN {e \in DOMAIN disk[RootOf(m)].entries : disk[RootOf(m)].entries[e].present}
    ELSE {}

RecordsUnder(m) == {i \in 1..Len(all_snaps) : ComponentPrefix(RootOf(m), all_snaps[i].path_buf)}

KeyOf(pathdata) == <<pathdata.system_time, pathdata.size>>

\* C18: with opt_alt_replicated and a mounted replica of the immediate
\* dataset, lookup_exec probes the snapshot roots of both mounts, the
\* versions found under both appear in historical, and no two records of
\* historical share the same (mtime, size).
C18_DeduplicatedAcrossRoots ==
    (OnePathAltReplicated /\ Replicas # {}) =>
        /\ lk_result.ok => lk_result.val[1] = all_snaps
        /\ \A m \in {immediate.val} \cup Replicas :
              \A e \in HeldUnder(m) :
                  \E i \in RecordsUnder(m) : KeyOf(all_snaps[i]) = KeyOf(PathDataFrom(Root, disk[RootOf(m)].entries[e]))
        /\ \A i, j \in 1..Len(all_snaps) : i # j => KeyOf(all_snaps[i]) # KeyOf(all_snaps[j])

\* C20: with opt_alt_replicated under Native mounts and no replica of the
\* immediate dataset mounted, lookup_exec does not fail for that reason: the
\* AltReplicated kind contributes nothing and historical is exactly what
\* the MostImmediate plan alone yields.
C20_NoReplicaIsNotAFailure ==
    (OnePathAltReplicated /\ MsgNoAltReplicated \in dropped) =>
        /\ lk_result.err # MsgNoAltReplicated
        /\ lk_result.ok => lk_result.val[1] = all_snaps
        /\ RecordsUnder(immediate.val) = 1..Len(all_snaps)
        /\ {KeyOf(all_snaps[i]) : i \in 1..Len(all_snaps)} =
              {KeyOf(PathDataFrom(Root, disk[RootOf(immediate.val)].entries[e])) :
                  e \in HeldUnder(immediate.val)}
        /\ Len(all_snaps) = Cardinality({disk[RootOf(immediate.val)].entries[e] :
                                            e \in HeldUnder(immediate.val)})

C20_Witness ==
    /\ OnePathAltReplicated
    /\ MsgNoAltReplicated \in dropped
    /\ Len(config.snap_point.mounts) >= 2
    /\ lk_result.ok
    /\ Len(all_snaps) = 1

(***************************************************************************)
(* browse_view: the hangup channel (C19), checked under SpecBrowse.        *)
(***************************************************************************)
PickerSession == bv_pc \in {"run_with", "output"}

\* C19: the sending side of the hangup channel stays open for the whole
\* picker session, so the walker thread is never signalled to stop while
\* the picker consumes items; once browse_view has returned, with a
\* selection or with an error, the hangup channel is closed.
C19_HangupHeldForTheSession ==
    /\ PickerSession => (hangup_tx = "open" /\ walker_pc # "stopped")
    /\ bv_pc = "returned" => hangup_tx = "dropped"

C19_Witness ==
    /\ bv_pc = "returned"
    /\ bv_result.ok
    /\ shown >= 1
    /\ rx_item >= 1
    /\ walker_pc = "stopped"
    /\ dirs_left >= 1

(***************************************************************************)
(* interactive_restore: the consent flow (C21), checked under SpecRestore. *)
(***************************************************************************)
Yes == {<<"Y", "E", "S">>, <<"Y">>}

No == {<<"N", "O">>, <<"N">>}

Answered == ir_pc = "answered"

ConsentStep ==
    /\ copies' # copies => (Answered /\ user_consent \in Yes /\ copies = 0 /\ copies' = 1)
    /\ (Answered /\ user_consent \in No) =>
          (copies' = copies /\ dest_exists' = dest_exists /\ process' = "exited")
    /\ (Answered /\ user_consent \notin Yes \cup No) =>
          (copies' = copies /\ dest_exists' = dest_exists /\ ir_pc' = "prompt"
              /\ process' = "running")
    /\ (ir_pc = "start" /\ ~opt_overwrite /\ dest_exists) =>
          (ir_pc' = "returned" /\ ~ir_result'.ok /\ prompts' = 0 /\ copies' = 0)

\* C21: the snapshot file is copied only after the user has answered YES
\* (or Y); an answer of NO (or N) ends the flow with no copy; any other
\* answer prompts again without copying; at most one copy is attempted per
\* invocation; in non-overwrite mode the flow returns an error before any
\* prompt when the computed destination already exists.
C21_CopyOnlyAfterConsent == [][ConsentStep]_vars

C21_Witness ==
    /\ process = "exited"
    /\ ir_pc = "exit"
    /\ copies = 1
    /\ prompts = MaxPrompts
    /\ user_consent \in Yes
    /\ ~opt_overwrite

====
